---- MODULE Spec2Model ----
(***************************************************************************)
(* Model of arch-app.py: the SSH config parser (SshConfigParser.parseFile), *)
(* the display label (SshHostEntry.getDisplayLine), the per-host note store *)
(* of the GUI (SshGui.getHostHash, loadNotes, saveNotes, ...), the config   *)
(* rewrite (addKeyToConfig), key generation, the session log and SIGINT.    *)
(*                                                                          *)
(* Python strings are sequences of one-character strings, so that strip,    *)
(* lower, startswith and split are computed as the code computes them.      *)
(***************************************************************************)
EXTENDS Integers, Sequences, FiniteSets, TLC

VARIABLES
    configFile,      \* ~/.ssh/config: [access, exists, readable, text]
    entries,         \* SshGui.entries: the list parseFile returned
    parseOutcome,    \* the last parseFile call: [called, result, raised, printed]
    entryArg,        \* the SshHostEntry getDisplayLine is applied to
    displayLine,     \* what getDisplayLine returned for entryArg (<<>> = not called)
    selected_entry,  \* SshGui.selected_entry: <<>> (None) or <<entry>>
    notes_text,      \* content of the notes text widget
    notesDir,        \* ~/.ssh/notes: [access, files], files by path
    status,          \* what setStatus last showed (status_var)
    search_var,      \* the search field
    tree,            \* the rows of the host list: [iid, values]
    lastCall,        \* the last call that ran, with its inputs and outcome
    sessionLogs,     \* ~/.ssh/session_logs: the lines of each log file, by path
    logCalls,        \* history: the logSession calls so far, [host_alias, line]
    putty_path,      \* SshGui.putty_path: <<>> (None) or <<path>>
    keyFiles,        \* the key files in ~/.ssh: "key" or "empty", by path
    running,         \* the Python code the main thread is in: mainloop or a handler
    sigint           \* a SIGINT has arrived and its Python handler has not run yet

vars == <<configFile, entries, parseOutcome, entryArg, displayLine, selected_entry,
          notes_text, notesDir, status, search_var, tree, lastCall,
          sessionLogs, logCalls, keyFiles, putty_path, running, sigint>>

\* what the parser, the display label and the note store leave alone
procVars == <<sessionLogs, logCalls, keyFiles, putty_path, running, sigint>>

(***************************************************************************)
(* Bounds of the model.                                                     *)
(***************************************************************************)
MaxLines == 3        \* lines of a config text

(***************************************************************************)
(* Python str methods.                                                      *)
(***************************************************************************)
\* the whitespace characters of the model's alphabet (str.isspace)
Whitespace == {" ", "\t", "\n"}

lowerChar(c) ==
    CASE c = "A" -> "a" [] c = "B" -> "b" [] c = "C" -> "c" [] c = "D" -> "d"
      [] c = "E" -> "e" [] c = "F" -> "f" [] c = "G" -> "g" [] c = "H" -> "h"
      [] c = "I" -> "i" [] c = "J" -> "j" [] c = "K" -> "k" [] c = "L" -> "l"
      [] c = "M" -> "m" [] c = "N" -> "n" [] c = "O" -> "o" [] c = "P" -> "p"
      [] c = "Q" -> "q" [] c = "R" -> "r" [] c = "S" -> "s" [] c = "T" -> "t"
      [] c = "U" -> "u" [] c = "V" -> "v" [] c = "W" -> "w" [] c = "X" -> "x"
      [] c = "Y" -> "y" [] c = "Z" -> "z" [] OTHER -> c

\* str.lower()
lower(s) == [i \in 1..Len(s) |-> lowerChar(s[i])]

\* str.lstrip(chars), str.rstrip(chars), str.strip(chars)
RECURSIVE lstripChars(_, _)
lstripChars(s, chars) ==
    IF s # <<>> /\ Head(s) \in chars THEN lstripChars(Tail(s), chars) ELSE s

RECURSIVE rstripChars(_, _)
rstripChars(s, chars) ==
    IF s # <<>> /\ s[Len(s)] \in chars
    THEN rstripChars(SubSeq(s, 1, Len(s) - 1), chars)
    ELSE s

stripChars(s, chars) == rstripChars(lstripChars(s, chars), chars)

\* str.strip()
strip(s) == stripChars(s, Whitespace)

\* str.startswith(prefix)
startswith(s, prefix) ==
    /\ Len(s) >= Len(prefix)
    /\ SubSeq(s, 1, Len(prefix)) = prefix

\* the length of the longest prefix of s without a character of chars
RECURSIVE spanUntil(_, _)
spanUntil(s, chars) ==
    IF s = <<>> \/ Head(s) \in chars THEN 0 ELSE 1 + spanUntil(Tail(s), chars)

\* str.split(None, 1) and str.split(maxsplit=1): at most two fields, the
\* second one keeping its inner and trailing whitespace
splitMax1(s) ==
    LET body == lstripChars(s, Whitespace)
        n == spanUntil(body, Whitespace)
        rest == lstripChars(SubSeq(body, n + 1, Len(body)), Whitespace)
    IN  IF body = <<>> THEN <<>>
        ELSE IF rest = <<>> THEN <<SubSeq(body, 1, n)>>
        ELSE <<SubSeq(body, 1, n), rest>>

\* str.split(): the whitespace-separated fields
RECURSIVE split(_)
split(s) ==
    LET body == lstripChars(s, Whitespace)
        n == spanUntil(body, Whitespace)
    IN  IF body = <<>> THEN <<>>
        ELSE <<SubSeq(body, 1, n)>> \o split(SubSeq(body, n + 1, Len(body)))

\* str.splitlines() for "\n" line breaks: a final line break adds no line
RECURSIVE splitlines(_)
splitlines(text) ==
    LET n == spanUntil(text, {"\n"})
    IN  IF text = <<>> THEN <<>>
        ELSE IF n = Len(text) THEN <<text>>
        ELSE <<SubSeq(text, 1, n)>> \o splitlines(SubSeq(text, n + 2, Len(text)))

\* any(ch in s for ch in chars)
containsAny(s, chars) == \E i \in 1..Len(s) : s[i] \in chars

(***************************************************************************)
(* SshHostEntry and SshConfigParser.parseFile.                              *)
(***************************************************************************)
\* options={} : a dict is a function from its keys
EmptyOptions == [k \in {} |-> <<>>]

SshHostEntry(alias, opts) == [host_alias |-> alias, options |-> opts]

\* dict.get(key, default)
optionsGet(opts, key, default) == IF key \in DOMAIN opts THEN opts[key] ELSE default

\* options[key] = value
optionsSet(opts, key, value) ==
    [k \in (DOMAIN opts) \cup {key} |-> IF k = key THEN value ELSE opts[k]]

k_host == <<"h", "o", "s", "t", " ">>

\* line.lower().startswith("host ")
isHostLine(line) == startswith(lower(line), k_host)

\* the state of the loop of parseFile: the entries list, current_entry
\* (<<>> is None) and whether an exception left the loop
ParseStart == [entries |-> <<>>, current_entry |-> <<>>, raised |-> FALSE]

\* one iteration of the for loop over the lines
parseLine(st, raw_line) ==
    LET line == strip(raw_line)
        parts == splitMax1(line)
    IN  IF st.raised THEN st
        ELSE IF line = <<>> \/ startswith(line, <<"#">>) THEN st
        ELSE IF isHostLine(line) THEN
            IF Len(parts) < 2 \/ split(strip(parts[2])) = <<>>
            THEN \* IndexError, caught by the except clause
                 [entries |-> st.entries \o st.current_entry,
                  current_entry |-> st.current_entry, raised |-> TRUE]
            ELSE [entries |-> st.entries \o st.current_entry,
                  current_entry |-> <<SshHostEntry(split(strip(parts[2]))[1], EmptyOptions)>>,
                  raised |-> FALSE]
        ELSE IF st.current_entry = <<>> THEN st
        ELSE IF Len(parts) # 2 THEN st
        ELSE LET key == lower(strip(parts[1]))
                 value == stripChars(strip(parts[2]), {"\""})
                 cur == st.current_entry[1]
             IN  [st EXCEPT !.current_entry =
                     <<SshHostEntry(cur.host_alias, optionsSet(cur.options, key, value))>>]

RECURSIVE parseLines(_, _)
parseLines(st, lines) ==
    IF lines = <<>> THEN st ELSE parseLines(parseLine(st, Head(lines)), Tail(lines))

isWildcard(alias) == containsAny(alias, {"*", "?", "!"})

\* the filter after the loop
filterWildcards(es) == SelectSeq(es, LAMBDA e : ~isWildcard(e.host_alias))

\* parseFile(config_path): the returned list, whether the call raised to its
\* caller and whether it printed an error. config_path.exists() is called
\* before the try: Path.exists() re-raises the OSError of a stat() that
\* fails for another reason than a path that does not exist (PermissionError
\* when the directory cannot be searched)
parseFile(file) ==
    IF ~file.access THEN [result |-> <<>>, raised |-> TRUE, printed |-> FALSE]
    ELSE IF ~file.exists THEN [result |-> <<>>, raised |-> FALSE, printed |-> FALSE]
    ELSE IF ~file.readable
    THEN \* read_text raises, the except clause prints, entries is still []
         [result |-> filterWildcards(<<>>), raised |-> FALSE, printed |-> TRUE]
    ELSE LET st == parseLines(ParseStart, splitlines(file.text))
         IN  IF st.raised
             THEN [result |-> filterWildcards(st.entries),
                   raised |-> FALSE, printed |-> TRUE]
             ELSE [result |-> filterWildcards(st.entries \o st.current_entry),
                   raised |-> FALSE, printed |-> FALSE]

(***************************************************************************)
(* SshHostEntry.getDisplayLine.                                             *)
(***************************************************************************)
k_hostname == <<"h", "o", "s", "t", "n", "a", "m", "e">>
k_user == <<"u", "s", "e", "r">>
k_port == <<"p", "o", "r", "t">>

s_placeholder ==
    <<"(", "k", "e", "i", "n", " ", "H", "o", "s", "t", "n", "a", "m", "e", ")">>

\* "".join(parts)
RECURSIVE joinParts(_)
joinParts(parts) == IF parts = <<>> THEN <<>> ELSE Head(parts) \o joinParts(Tail(parts))

\* the label with the user alone on its right side
getDisplayLineUserOnly(entry) ==
    LET host_name == optionsGet(entry.options, k_hostname, <<>>)
        user_name == optionsGet(entry.options, k_user, <<>>)
        port == optionsGet(entry.options, k_port, <<>>)
        right_parts ==
            (IF user_name # <<>> THEN <<user_name \o <<"@">> \o host_name>>
             ELSE IF host_name # <<>> THEN <<host_name>>
             ELSE <<>>)
            \o (IF port # <<>> THEN <<<<":">> \o port>> ELSE <<>>)
        right == IF right_parts # <<>> THEN joinParts(right_parts) ELSE s_placeholder
    IN  entry.host_alias \o <<" ", " ", "(">> \o right \o <<")">>

getDisplayLine(entry) ==
    LET host_name == optionsGet(entry.options, k_hostname, <<>>)
        user_name == optionsGet(entry.options, k_user, <<>>)
        port == optionsGet(entry.options, k_port, <<>>)
        left == entry.host_alias
        right_parts ==
            (IF user_name # <<>> /\ host_name # <<>>
             THEN <<user_name \o <<"@">> \o host_name>>
             ELSE IF host_name # <<>> THEN <<host_name>>
             ELSE <<>>)
            \o (IF port # <<>> THEN <<<<":">> \o port>> ELSE <<>>)
        right == IF right_parts # <<>> THEN joinParts(right_parts) ELSE s_placeholder
    IN  left \o <<" ", " ", "(">> \o right \o <<")">>

(***************************************************************************)
(* The note store: SshGui.getHostHash, getNotesPath, loadNotes, saveNotes.  *)
(* The notes directory: whether it can be searched (access), and a function *)
(* from the paths of the files that exist to their contents. A file holds  *)
(* a JSON document: an object with its members (strings as JSON string     *)
(* literals), another JSON value, or text that json.loads rejects (also an *)
(* empty or unreadable file).                                              *)
(***************************************************************************)
\* hashlib.md5(identifier.encode()).hexdigest()[:12]; the digest is kept as a
\* term over the hashed string: equal strings give equal digests, different
\* strings different digests (collisions aside)
md5hex12(identifier) == [md5 |-> identifier]

\* the hash taken of the alias alone
getHostHashAlias(entry) == md5hex12(entry.host_alias)

getHostHash(entry) ==
    LET identifier == optionsGet(entry.options, k_hostname, entry.host_alias)
    IN  md5hex12(identifier)

\* self.notes_dir_path / f"{host_hash}.json"
getNotesPath(entry) == [dir |-> "notes", name |-> getHostHash(entry), suffix |-> ".json"]

\* json.dumps of a str: the JSON string literal (ensure_ascii=False)
jsonEscape(c) ==
    CASE c = "\"" -> <<"\\", "\"">>
      [] c = "\\" -> <<"\\", "\\">>
      [] c = "\n" -> <<"\\", "n">>
      [] c = "\t" -> <<"\\", "t">>
      [] OTHER -> <<c>>

RECURSIVE jsonEscapeAll(_)
jsonEscapeAll(s) == IF s = <<>> THEN <<>> ELSE jsonEscape(Head(s)) \o jsonEscapeAll(Tail(s))

jsonDumpsStr(s) == <<"\"">> \o jsonEscapeAll(s) \o <<"\"">>

\* json.loads of a JSON string literal: the str
RECURSIVE jsonUnescapeAll(_)
jsonUnescapeAll(s) ==
    IF s = <<>> THEN <<>>
    ELSE IF Head(s) = "\\" /\ Len(s) >= 2
    THEN <<CASE s[2] = "n" -> "\n" [] s[2] = "t" -> "\t" [] OTHER -> s[2]>>
         \o jsonUnescapeAll(SubSeq(s, 3, Len(s)))
    ELSE <<Head(s)>> \o jsonUnescapeAll(Tail(s))

jsonLoadsStr(lit) == jsonUnescapeAll(SubSeq(lit, 2, Len(lit) - 1))

InvalidJson == [type |-> "invalid", members |-> <<>>]
JsonArray == [type |-> "array", members |-> <<>>]
JsonObject(members) == [type |-> "object", members |-> members]

\* loadNotes(entry): the returned str, whether an error was printed, whether
\* the call raised. notes_file.exists() is called before the try, and raises
\* when the notes directory cannot be searched
loadNotes(dir, entry) ==
    LET notes_file == getNotesPath(entry)
    IN  IF ~dir.access
        THEN [result |-> <<>>, printed |-> FALSE, raised |-> TRUE]
        ELSE IF notes_file \notin DOMAIN dir.files
        THEN [result |-> <<>>, printed |-> FALSE, raised |-> FALSE]
        ELSE IF dir.files[notes_file].type = "invalid"
        THEN \* json.loads (or read_text) raises, caught
             [result |-> <<>>, printed |-> TRUE, raised |-> FALSE]
        ELSE IF dir.files[notes_file].type # "object"
        THEN \* data.get raises AttributeError, caught
             [result |-> <<>>, printed |-> TRUE, raised |-> FALSE]
        ELSE LET data == dir.files[notes_file].members
             IN  [result |-> IF "notes" \in DOMAIN data
                             THEN jsonLoadsStr(data["notes"]) ELSE <<>>,
                  printed |-> FALSE, raised |-> FALSE]

\* how notes_file.write_text can end: written; open() failed, the file is as
\* it was; the write failed after open() truncated the file. In a directory
\* that cannot be searched open() fails
WriteOutcomes == {"ok", "open_failed", "write_failed"}
canEnd(dir, outcome) == dir.access \/ outcome = "open_failed"

\* the dict saveNotes serialises
notesData(entry, notes) ==
    [m \in {"host_alias", "hostname", "notes", "hash"} |->
        CASE m = "host_alias" -> jsonDumpsStr(entry.host_alias)
          [] m = "hostname" -> jsonDumpsStr(optionsGet(entry.options, k_hostname, <<>>))
          [] m = "notes" -> jsonDumpsStr(notes)
          [] m = "hash" -> getHostHash(entry)]

writeFile(dir, path, content) ==
    [dir EXCEPT !.files =
        [f \in (DOMAIN dir.files) \cup {path} |-> IF f = path THEN content ELSE dir.files[f]]]

\* the same, appending to the notes already stored
saveNotesMerge(dir, entry, notes, outcome) ==
    LET notes_file == getNotesPath(entry)
        old == loadNotes(dir, entry).result
    IN  [dir |-> writeFile(dir, notes_file, JsonObject(notesData(entry, old \o notes))),
         showerror |-> FALSE, raised |-> FALSE]

\* saveNotes(entry, notes): the notes directory afterwards, whether the error
\* box was shown, whether the call raised
saveNotes(dir, entry, notes, outcome) ==
    LET notes_file == getNotesPath(entry)
    IN  IF outcome = "ok"
        THEN [dir |-> writeFile(dir, notes_file, JsonObject(notesData(entry, notes))),
              showerror |-> FALSE, raised |-> FALSE]
        ELSE IF outcome = "write_failed"
        THEN [dir |-> writeFile(dir, notes_file, InvalidJson),
              showerror |-> TRUE, raised |-> FALSE]
        ELSE [dir |-> dir, showerror |-> TRUE, raised |-> FALSE]

(***************************************************************************)
(* The config files the parser is applied to: every text of at most         *)
(* MaxLines lines drawn from ConfigLines, a missing file and a file whose   *)
(* read fails.                                                              *)
(***************************************************************************)
L_blank == <<>>
L_comment == <<"#", " ", "c">>
L_host_a == <<"H", "o", "s", "t", " ", "a">>
L_HOST_b_c == <<"H", "O", "S", "T", " ", "b", " ", "c">>
L_host_star == <<"h", "o", "s", "t", " ", "*">>
L_host_tab_b == <<"H", "o", "s", "t", "\t", "b">>
L_host_tab_star == <<"H", "o", "s", "t", "\t", "*">>
L_host_neg == <<"H", "o", "s", "t", " ", "!", "a">>
L_User_x == <<" ", " ", "U", "s", "e", "r", " ", "x">>
L_user_qy == <<"u", "s", "e", "r", "\t", "\"", "y", "\"">>
L_HostName_empty == <<"H", "o", "s", "t", "N", "a", "m", "e", " ", "\"", "\"">>
L_HostName_h == <<"H", "o", "s", "t", "N", "a", "m", "e", " ", "h">>
L_Port == <<"P", "o", "r", "t">>

ConfigLines ==
    {L_blank, L_comment, L_host_a, L_HOST_b_c, L_host_star, L_host_tab_b,
     L_host_tab_star, L_host_neg,
     L_User_x, L_user_qy, L_HostName_empty, L_HostName_h, L_Port}

\* "\n".join(lines)
RECURSIVE joinLines(_)
joinLines(lines) ==
    IF lines = <<>> THEN <<>>
    ELSE IF Len(lines) = 1 THEN lines[1]
    ELSE lines[1] \o <<"\n">> \o joinLines(Tail(lines))

ConfigTexts ==
    {joinLines(ls) : ls \in UNION {[1..n -> ConfigLines] : n \in 0..MaxLines}}

\* a file: whether stat() answers (access), whether the file exists, whether
\* read_text() succeeds, and its text
MissingFile == [access |-> TRUE, exists |-> FALSE, readable |-> FALSE, text |-> <<>>]
UnreadableFile == [access |-> TRUE, exists |-> TRUE, readable |-> FALSE, text |-> <<>>]
InaccessibleFile == [access |-> FALSE, exists |-> TRUE, readable |-> FALSE, text |-> <<>>]
TextFile(text) == [access |-> TRUE, exists |-> TRUE, readable |-> TRUE, text |-> text]

ConfigFiles ==
    {MissingFile, UnreadableFile, InaccessibleFile} \cup {TextFile(t) : t \in ConfigTexts}

NotParsed == [called |-> FALSE, result |-> <<>>, raised |-> FALSE, printed |-> FALSE]
NoCall == [op |-> "none"]
NoStatus == [kind |-> "none"]
NoEntryArg == SshHostEntry(<<>>, EmptyOptions)
\* no log file, no key file, the main thread waiting in app.mainloop()
NoLogs == [f \in {} |-> <<>>]
NoKeys == [f \in {} |-> "key"]
Mainloop == [op |-> "mainloop"]

(***************************************************************************)
(* SpecParse: parseFile applied to every config file of ConfigFiles.        *)
(***************************************************************************)
InitParse ==
    /\ configFile \in ConfigFiles
    /\ entries = <<>>
    /\ parseOutcome = NotParsed
    /\ entryArg = NoEntryArg
    /\ displayLine = <<>>
    /\ selected_entry = <<>>
    /\ notes_text = <<>>
    /\ notesDir = [access |-> TRUE, files |-> <<>>]
    /\ status = NoStatus
    /\ search_var = <<>>
    /\ tree = <<>>
    /\ lastCall = NoCall
    /\ sessionLogs = NoLogs
    /\ logCalls = <<>>
    /\ putty_path = <<>>
    /\ keyFiles = NoKeys
    /\ running = Mainloop
    /\ sigint = FALSE

\* parser.parseFile(self.config_path)
callParseFile ==
    /\ ~parseOutcome.called
    /\ LET r == parseFile(configFile)
       IN  /\ parseOutcome' = [called |-> TRUE, result |-> r.result,
                               raised |-> r.raised, printed |-> r.printed]
           /\ lastCall' = [op |-> "parseFile"]
    /\ UNCHANGED <<procVars, configFile, entries, entryArg, displayLine, selected_entry,
                   notes_text, notesDir, status, search_var, tree>>

NextParse == callParseFile

SpecParse == InitParse /\ [][NextParse]_vars

(***************************************************************************)
(* SpecDisplay: getDisplayLine applied to entries with every combination of *)
(* an absent, an empty and a non-empty user, hostname and port.             *)
(***************************************************************************)
DisplayValues(k) ==
    CASE k = k_hostname -> {<<>>, <<"h">>}
      [] k = k_user -> {<<>>, <<"u">>}
      [] k = k_port -> {<<>>, <<"2">>}

DisplayOptions ==
    {f \in UNION {[D -> {<<>>, <<"h">>, <<"u">>, <<"2">>}] :
                    D \in SUBSET {k_hostname, k_user, k_port}} :
        \A k \in DOMAIN f : f[k] \in DisplayValues(k)}

DisplayEntries == {SshHostEntry(alias, opts) : alias \in {<<"a">>, <<"b">>}, opts \in DisplayOptions}

InitDisplay ==
    /\ configFile = MissingFile
    /\ entries = <<>>
    /\ parseOutcome = NotParsed
    /\ entryArg \in DisplayEntries
    /\ displayLine = <<>>
    /\ selected_entry = <<>>
    /\ notes_text = <<>>
    /\ notesDir = [access |-> TRUE, files |-> <<>>]
    /\ status = NoStatus
    /\ search_var = <<>>
    /\ tree = <<>>
    /\ lastCall = NoCall
    /\ sessionLogs = NoLogs
    /\ logCalls = <<>>
    /\ putty_path = <<>>
    /\ keyFiles = NoKeys
    /\ running = Mainloop
    /\ sigint = FALSE

\* entry.getDisplayLine()
callGetDisplayLine ==
    /\ displayLine = <<>>
    /\ displayLine' = getDisplayLine(entryArg)
    /\ lastCall' = [op |-> "getDisplayLine"]
    /\ UNCHANGED <<procVars, configFile, entries, parseOutcome, entryArg, selected_entry,
                   notes_text, notesDir, status, search_var, tree>>

NextDisplay == callGetDisplayLine

SpecDisplay == InitDisplay /\ [][NextDisplay]_vars

(***************************************************************************)
(* The GUI's inputs: the config files of the note store and GUI             *)
(* specifications, the texts typed into the notes widget and the search     *)
(* field, and the note files found at start.                                *)
(***************************************************************************)
\* Host a / HostName h / Host b / HostName h / Host c / User x
G_shared ==
    joinLines(<<L_host_a, L_HostName_h, <<"H", "o", "s", "t", " ", "b">>, L_HostName_h,
                <<"H", "o", "s", "t", " ", "c">>, L_User_x>>)

\* Host a / HostName "" / Host b / HostName ""
G_empty ==
    joinLines(<<L_host_a, L_HostName_empty, <<"H", "o", "s", "t", " ", "b">>,
                L_HostName_empty>>)

\* Host h / Host a / HostName h
G_alias == joinLines(<<<<"H", "o", "s", "t", " ", "h">>, L_host_a, L_HostName_h>>)

GuiConfigFiles == {MissingFile, TextFile(G_shared), TextFile(G_empty), TextFile(G_alias)}

NoteTexts ==
    {<<>>, <<"n">>, <<"\"", "\\">>, <<" ", "m", "\n", "k", " ">>}

\* the texts typed into the notes widget and the search field
TypedTexts == {<<>>, <<" ", "m", "\n", "k", " ">>}
SearchTerms == {<<>>, <<"A">>}

\* what a note file found at start can hold: not written by this program run
ForeignObject == JsonObject([m \in {"other"} |-> jsonDumpsStr(<<"o">>)])
FoundContents == {InvalidJson, JsonArray, ForeignObject}

\* the notes directories at start: any of the entries' note files may exist
FoundNotesDirs(es) ==
    {[access |-> TRUE, files |-> f] :
        f \in UNION {[D -> FoundContents] :
                        D \in SUBSET {getNotesPath(es[i]) : i \in 1..Len(es)}}}
    \cup {[access |-> FALSE, files |-> <<>>]}

(***************************************************************************)
(* SpecNotes: saveNotes and loadNotes called for the entries of a parsed    *)
(* config, in any order.                                                    *)
(***************************************************************************)
InitNotes ==
    /\ configFile \in GuiConfigFiles
    /\ entries = parseFile(configFile).result
    /\ parseOutcome = NotParsed
    /\ entryArg = NoEntryArg
    /\ displayLine = <<>>
    /\ selected_entry = <<>>
    /\ notes_text = <<>>
    /\ notesDir \in FoundNotesDirs(entries)
    /\ status = NoStatus
    /\ search_var = <<>>
    /\ tree = <<>>
    /\ lastCall = NoCall
    /\ sessionLogs = NoLogs
    /\ logCalls = <<>>
    /\ putty_path = <<>>
    /\ keyFiles = NoKeys
    /\ running = Mainloop
    /\ sigint = FALSE

\* the record of the call before, without its own history
callBefore == IF "prev" \in DOMAIN lastCall THEN [lastCall EXCEPT !.prev = NoCall] ELSE lastCall

\* self.saveNotes(entry, notes)
callSaveNotes ==
    \E i \in 1..Len(entries), notes \in NoteTexts, outcome \in WriteOutcomes :
        LET r == saveNotes(notesDir, entries[i], notes, outcome)
        IN  /\ canEnd(notesDir, outcome)
            /\ notesDir' = r.dir
            /\ lastCall' = [op |-> "saveNotes", entry |-> entries[i], notes |-> notes,
                            write |-> outcome, showerror |-> r.showerror,
                            raised |-> r.raised]
            /\ UNCHANGED <<procVars, configFile, entries, parseOutcome, entryArg, displayLine,
                           selected_entry, notes_text, status, search_var, tree>>

\* self.loadNotes(entry)
callLoadNotes ==
    \E i \in 1..Len(entries) :
        LET r == loadNotes(notesDir, entries[i])
        IN  /\ lastCall' = [op |-> "loadNotes", entry |-> entries[i], result |-> r.result,
                            printed |-> r.printed, raised |-> r.raised, prev |-> callBefore]
            /\ UNCHANGED <<procVars, configFile, entries, parseOutcome, entryArg, displayLine,
                           selected_entry, notes_text, notesDir, status, search_var, tree>>

NextNotes == callSaveNotes \/ callLoadNotes

SpecNotes == InitNotes /\ [][NextNotes]_vars

(***************************************************************************)
(* SpecGui: the window after construction and its handlers.                 *)
(***************************************************************************)
\* sub in s
RECURSIVE contains(_, _)
contains(s, sub) ==
    IF startswith(s, sub) THEN TRUE
    ELSE IF s = <<>> THEN FALSE
    ELSE contains(Tail(s), sub)

\* rows whose iid is the position in the tree, not the index into entries
treeRowsByPosition(es, search) ==
    LET search_term == lower(search)
        searchable(e) ==
            lower(e.host_alias \o <<" ">> \o optionsGet(e.options, k_hostname, <<>>)
                  \o <<" ">> \o optionsGet(e.options, k_user, <<>>))
        all == [i \in 1..Len(es) |-> [iid |-> i - 1, values |-> getDisplayLine(es[i])]]
        shown == SelectSeq(all, LAMBDA row :
            search_term = <<>> \/ contains(searchable(es[row.iid + 1]), search_term))
    IN  [r \in 1..Len(shown) |-> [iid |-> r - 1, values |-> shown[r].values]]

\* filterEntries: the rows inserted into the tree, iid = index into entries
treeRows(es, search) ==
    LET search_term == lower(search)
        searchable(e) ==
            lower(e.host_alias \o <<" ">> \o optionsGet(e.options, k_hostname, <<>>)
                  \o <<" ">> \o optionsGet(e.options, k_user, <<>>))
        all == [i \in 1..Len(es) |-> [iid |-> i - 1, values |-> getDisplayLine(es[i])]]
    IN  SelectSeq(all, LAMBDA row :
            search_term = <<>> \/ contains(searchable(es[row.iid + 1]), search_term))

\* getStatusText()
getStatusText(es) == [kind |-> "status", count |-> Len(es)]

\* setStatus(text): shows text; the reset it schedules is statusTimer
setStatus(text) == text

InitGui ==
    /\ configFile \in GuiConfigFiles
    /\ entries = parseFile(configFile).result
    /\ parseOutcome = NotParsed
    /\ entryArg = NoEntryArg
    /\ displayLine = <<>>
    /\ selected_entry = <<>>
    /\ notes_text = <<>>
    /\ notesDir \in FoundNotesDirs(entries)
    /\ status = setStatus(getStatusText(entries))
    /\ search_var = <<>>
    /\ tree = treeRows(entries, <<>>)
    /\ lastCall = NoCall
    /\ sessionLogs = NoLogs
    /\ logCalls = <<>>
    /\ putty_path = <<>>
    /\ keyFiles = NoKeys
    /\ running = Mainloop
    /\ sigint = FALSE

\* loadEntries (the reload button): parseFile, filterEntries with
\* clearDetails, setStatus; when parseFile raises, loadEntries ends there
\* and has assigned nothing
loadEntries ==
    /\ ~parseFile(configFile).raised
    /\ LET es == parseFile(configFile).result
       IN  /\ entries' = es
           /\ tree' = treeRows(es, search_var)
           /\ status' = setStatus(getStatusText(es))
    /\ notes_text' = <<>>
    /\ selected_entry' = <<>>
    /\ lastCall' = [op |-> "loadEntries"]
    /\ UNCHANGED <<procVars, configFile, parseOutcome, entryArg, displayLine, notesDir, search_var>>

\* the trace callback of search_var: filterEntries with clearDetails
filterEntries ==
    \E term \in SearchTerms :
        /\ search_var' = term
        /\ tree' = treeRows(entries, term)
        /\ notes_text' = <<>>
        /\ selected_entry' = <<>>
        /\ lastCall' = [op |-> "filterEntries"]
        /\ UNCHANGED <<procVars, configFile, entries, parseOutcome, entryArg, displayLine,
                       notesDir, status>>

\* onSelectEntry with a selected row: selected_entry, showDetails, loadNotes;
\* when loadNotes raises, the notes widget has been emptied and stays empty
onSelectEntry ==
    \E r \in 1..Len(tree) :
        LET index == tree[r].iid
            entry == entries[index + 1]
            saved_notes == loadNotes(notesDir, entry)
        IN  /\ selected_entry' = <<entry>>
            /\ notes_text' = saved_notes.result
            /\ lastCall' = [op |-> "onSelectEntry", row |-> r,
                            printed |-> saved_notes.printed, raised |-> saved_notes.raised]
            /\ UNCHANGED <<procVars, configFile, entries, parseOutcome, entryArg, displayLine,
                           notesDir, status, search_var, tree>>

\* the user edits the notes widget
typeNotes ==
    \E text \in TypedTexts :
        /\ notes_text' = text
        /\ lastCall' = [op |-> "typeNotes"]
        /\ UNCHANGED <<procVars, configFile, entries, parseOutcome, entryArg, displayLine,
                       selected_entry, notesDir, status, search_var, tree>>

\* saveCurrentNotes (the save button)
saveCurrentNotes ==
    IF selected_entry = <<>>
    THEN /\ lastCall' = [op |-> "saveCurrentNotes", showinfo |-> TRUE, write |-> "none",
                         showerror |-> FALSE, raised |-> FALSE]
         /\ UNCHANGED <<procVars, configFile, entries, parseOutcome, entryArg, displayLine,
                        selected_entry, notes_text, notesDir, status, search_var, tree>>
    ELSE \E outcome \in WriteOutcomes :
            LET notes == strip(notes_text \o <<"\n">>)
                r == saveNotes(notesDir, selected_entry[1], notes, outcome)
            IN  /\ canEnd(notesDir, outcome)
                /\ notesDir' = r.dir
                /\ status' = setStatus([kind |-> "saved", alias |-> selected_entry[1].host_alias])
                /\ lastCall' = [op |-> "saveCurrentNotes", showinfo |-> FALSE,
                                write |-> outcome, showerror |-> r.showerror,
                                raised |-> r.raised]
                /\ UNCHANGED <<procVars, configFile, entries, parseOutcome, entryArg, displayLine,
                               selected_entry, notes_text, search_var, tree>>

\* the after(5000) callback that setStatus schedules, when it changes the
\* status line
statusTimer ==
    /\ status # getStatusText(entries)
    /\ status' = getStatusText(entries)
    /\ lastCall' = [op |-> "statusTimer"]
    /\ UNCHANGED <<procVars, configFile, entries, parseOutcome, entryArg, displayLine,
                   selected_entry, notes_text, notesDir, search_var, tree>>

NextGui ==
    \/ loadEntries
    \/ filterEntries
    \/ onSelectEntry
    \/ typeNotes
    \/ saveCurrentNotes
    \/ statusTimer

SpecGui == InitGui /\ [][NextGui]_vars

(***************************************************************************)
(* SshGui.addKeyToConfig: the rewrite of the config file.                   *)
(***************************************************************************)
MaxMutLines == 4     \* lines of a config text that addKeyToConfig rewrites

\* str.split('\n'): a final line break adds an empty last line
RECURSIVE splitNewline(_)
splitNewline(text) ==
    LET n == spanUntil(text, {"\n"})
    IN  IF n = Len(text) THEN <<text>>
        ELSE <<SubSeq(text, 1, n)>> \o splitNewline(SubSeq(text, n + 2, Len(text)))

k_identityfile == <<"i", "d", "e", "n", "t", "i", "t", "y", "f", "i", "l", "e">>
s_IdentityFile == <<"I", "d", "e", "n", "t", "i", "t", "y", "F", "i", "l", "e">>

\* a HostName directive in the place of the new line
identityLineHostName(key_path) ==
    <<" ", " ", "H", "o", "s", "t", "N", "a", "m", "e", " ">> \o key_path

\* f"  IdentityFile {key_path}"
identityLine(key_path) == <<" ", " ">> \o s_IdentityFile \o <<" ">> \o key_path

\* the state of the loop of addKeyToConfig
AddKeyStart == [new_lines |-> <<>>, in_target_host |-> FALSE, identity_added |-> FALSE]

\* one iteration of the for loop over the lines
addKeyLine(st, line, host_alias, key_path) ==
    LET stripped == strip(line)
        copied == Append(st.new_lines, line)
    IN  IF isHostLine(stripped) /\ contains(line, host_alias)
        THEN [st EXCEPT !.new_lines = copied, !.in_target_host = TRUE]
        ELSE IF st.in_target_host /\ isHostLine(stripped)
        THEN [st EXCEPT !.new_lines = copied, !.in_target_host = FALSE]
        ELSE IF st.in_target_host /\ ~st.identity_added /\ stripped # <<>>
                /\ ~startswith(stripped, <<"#">>)
        THEN [st EXCEPT !.new_lines = Append(copied, identityLine(key_path)),
                        !.identity_added = TRUE]
        ELSE [st EXCEPT !.new_lines = copied]

RECURSIVE addKeyLines(_, _, _, _)
addKeyLines(st, lines, host_alias, key_path) ==
    IF lines = <<>> THEN st
    ELSE addKeyLines(addKeyLine(st, Head(lines), host_alias, key_path),
                     Tail(lines), host_alias, key_path)

\* addKeyToConfig(entry, key_path) up to loadEntries: the config file
\* afterwards, identity_added, how write_text ended ("none": not called),
\* whether the error box was shown and whether loadEntries is called
addKeyToConfig(file, entry, key_path, outcome) ==
    IF ~file.access \/ ~file.exists \/ ~file.readable
    THEN \* read_text raises, caught
         [file |-> file, identity_added |-> FALSE, write |-> "none",
          showerror |-> TRUE, reload |-> FALSE]
    ELSE LET st == addKeyLines(AddKeyStart, splitNewline(file.text),
                               entry.host_alias, key_path)
         IN  IF ~st.identity_added
             THEN [file |-> file, identity_added |-> FALSE, write |-> "none",
                   showerror |-> FALSE, reload |-> FALSE]
             ELSE IF outcome = "ok"
             THEN [file |-> TextFile(joinLines(st.new_lines)), identity_added |-> TRUE,
                   write |-> outcome, showerror |-> FALSE, reload |-> TRUE]
             ELSE IF outcome = "write_failed"
             THEN \* open() has truncated the file
                  [file |-> TextFile(<<>>), identity_added |-> TRUE,
                   write |-> outcome, showerror |-> TRUE, reload |-> FALSE]
             ELSE [file |-> file, identity_added |-> TRUE,
                   write |-> outcome, showerror |-> TRUE, reload |-> FALSE]

(***************************************************************************)
(* SpecMutate: addKeyToConfig called once for an entry of a parsed config   *)
(* of at most MaxMutLines lines drawn from MutLines.                        *)
(***************************************************************************)
L_host_ab == <<"H", "o", "s", "t", " ", "a", "b">>
L_IdentityFile_o ==
    <<"I", "d", "e", "n", "t", "i", "t", "y", "F", "i", "l", "e", " ", "o">>

MutLines ==
    {L_blank, L_comment, L_host_a, L_host_ab, L_host_tab_b, L_User_x, L_IdentityFile_o}

MutTexts ==
    {joinLines(ls) : ls \in UNION {[1..n -> MutLines] : n \in 1..MaxMutLines}}

\* str(private_key_path)
KeyPaths == {<<"/", "k">>}

InitMutate ==
    /\ configFile \in {TextFile(t) : t \in MutTexts}
    /\ entries = parseFile(configFile).result
    /\ parseOutcome = NotParsed
    /\ entryArg = NoEntryArg
    /\ displayLine = <<>>
    /\ selected_entry = <<>>
    /\ notes_text = <<>>
    /\ notesDir = [access |-> TRUE, files |-> <<>>]
    /\ status = setStatus(getStatusText(entries))
    /\ search_var = <<>>
    /\ tree = treeRows(entries, <<>>)
    /\ lastCall = NoCall
    /\ sessionLogs = NoLogs
    /\ logCalls = <<>>
    /\ putty_path = <<>>
    /\ keyFiles = NoKeys
    /\ running = Mainloop
    /\ sigint = FALSE

\* self.addKeyToConfig(entry, key_path), with the loadEntries it ends with
callAddKeyToConfig ==
    /\ lastCall = NoCall
    /\ \E i \in 1..Len(entries), key_path \in KeyPaths, outcome \in WriteOutcomes :
        LET r == addKeyToConfig(configFile, entries[i], key_path, outcome)
            es == parseFile(r.file).result
        IN  /\ r.identity_added \/ outcome = "ok"
            /\ configFile' = r.file
            /\ lastCall' = [op |-> "addKeyToConfig", entry |-> entries[i],
                            key_path |-> key_path, before |-> configFile.text,
                            identity_added |-> r.identity_added, write |-> r.write,
                            showerror |-> r.showerror, reload |-> r.reload]
            /\ IF r.reload
               THEN /\ entries' = es
                    /\ tree' = treeRows(es, search_var)
                    /\ status' = setStatus(getStatusText(es))
                    /\ notes_text' = <<>>
                    /\ selected_entry' = <<>>
               ELSE UNCHANGED <<entries, tree, status, notes_text, selected_entry>>
    /\ UNCHANGED <<parseOutcome, entryArg, displayLine, notesDir, search_var,
                   procVars>>

NextMutate == callAddKeyToConfig

SpecMutate == InitMutate /\ [][NextMutate]_vars

(***************************************************************************)
(* The configuration format as section 4.1 of the specification reads it,   *)
(* for stating the parser's properties: lines, Host lines, blocks and the   *)
(* directive lines of a block.                                              *)
(***************************************************************************)
cfgLines == splitlines(configFile.text)

fields(i) == split(cfgLines[i])

isSkipped(i) == strip(cfgLines[i]) = <<>> \/ Head(strip(cfgLines[i])) = "#"

\* a non-comment line: the token Host in any letter case, whitespace, a pattern
isHostDecl(i) ==
    /\ ~isSkipped(i)
    /\ Len(fields(i)) >= 2
    /\ lower(fields(i)[1]) = <<"h", "o", "s", "t">>

declAlias(i) == fields(i)[2]

HostDecls == {i \in 1..Len(cfgLines) : isHostDecl(i)}

\* the Host line whose block holds line j (0: before the first Host line)
blockOf(j) ==
    IF \E i \in HostDecls : i <= j
    THEN CHOOSE i \in HostDecls : i <= j /\ \A k \in HostDecls : k <= j => k <= i
    ELSE 0

\* a directive line with a key and a value
isDirective(j) ==
    /\ ~isSkipped(j)
    /\ ~isHostDecl(j)
    /\ Len(fields(j)) >= 2

dirKey(j) == lower(fields(j)[1])

\* the value: the rest of the line, trimmed, surrounding double quotes removed
dirValue(j) ==
    LET line == strip(cfgLines[j])
        rest == strip(SubSeq(line, Len(fields(j)[1]) + 1, Len(line)))
    IN  stripChars(rest, {"\""})

blockDirectives(i) == {j \in 1..Len(cfgLines) : isDirective(j) /\ blockOf(j) = i}

\* last occurrence wins
blockOptions(i) ==
    [k \in {dirKey(j) : j \in blockDirectives(i)} |->
        dirValue(CHOOSE j \in blockDirectives(i) :
                    /\ dirKey(j) = k
                    /\ \A m \in blockDirectives(i) : dirKey(m) = k => m <= j)]

\* the Host lines that name one addressable host, in file order
RECURSIVE sortedSeq(_)
sortedSeq(S) ==
    IF S = {} THEN <<>>
    ELSE LET m == CHOOSE x \in S : \A y \in S : x <= y
         IN  <<m>> \o sortedSeq(S \ {m})

addressableDecls == sortedSeq({i \in HostDecls : ~isWildcard(declAlias(i))})

parsedText == parseOutcome.called /\ configFile.exists /\ configFile.readable

(***************************************************************************)
(* Properties of parseFile, checked under SpecParse.                        *)
(***************************************************************************)
\* C1: no entry returned by parseFile has an alias containing '*', '?' or
\* '!', and a directive line in the block of a wildcard or negated Host line
\* appears in the options of no returned entry: a returned entry holds its
\* key with its value only if a block of that entry's alias has such a line.
C1_NoWildcardNoLeak ==
    parsedText =>
        /\ \A n \in 1..Len(parseOutcome.result) :
              ~isWildcard(parseOutcome.result[n].host_alias)
        /\ \A j \in 1..Len(cfgLines) :
              (isDirective(j) /\ blockOf(j) # 0 /\ isWildcard(declAlias(blockOf(j)))) =>
                 \A n \in 1..Len(parseOutcome.result) :
                    LET e == parseOutcome.result[n]
                    IN  (dirKey(j) \in DOMAIN e.options /\ e.options[dirKey(j)] = dirValue(j)) =>
                           \E m \in 1..Len(cfgLines) :
                              /\ isDirective(m)
                              /\ blockOf(m) # 0
                              /\ declAlias(blockOf(m)) = e.host_alias
                              /\ dirKey(m) = dirKey(j)
                              /\ dirValue(m) = dirValue(j)

\* C2: every non-comment line whose first token is Host in any letter case,
\* followed by a space or a tab and a pattern, starts a new entry named by
\* its first pattern: the returned aliases are, in file order, the first
\* patterns of the Host lines whose first pattern is no wildcard.
C2_OneEntryPerHostLine ==
    parsedText =>
        /\ Len(parseOutcome.result) = Len(addressableDecls)
        /\ \A n \in 1..Len(parseOutcome.result) :
              parseOutcome.result[n].host_alias = declAlias(addressableDecls[n])

\* C3: the options of every returned entry map each lower-cased key of its
\* block to the trimmed, unquoted value of the last directive line with that
\* key in the block; lines with a key and no value and lines before the
\* first Host line add nothing.
C3_OptionsOfBlock ==
    parsedText =>
        \A n \in 1..Len(parseOutcome.result) :
            /\ n <= Len(addressableDecls)
            /\ parseOutcome.result[n].options = blockOptions(addressableDecls[n])

\* C4: parseFile never raises; a missing file gives the empty list silently,
\* a file that cannot be read gives the empty list and one printed error,
\* and a text that is read is parsed to the end without an error; a text
\* without any Host line gives the empty list.
C4_ParseNeverRaises ==
    parseOutcome.called =>
        /\ ~parseOutcome.raised
        /\ ~configFile.exists => (parseOutcome.result = <<>> /\ ~parseOutcome.printed)
        /\ (configFile.exists /\ ~configFile.readable) =>
              (parseOutcome.result = <<>> /\ parseOutcome.printed)
        /\ (configFile.exists /\ configFile.readable) =>
              /\ ~parseOutcome.printed
              /\ (\A i \in 1..Len(cfgLines) : ~isHostLine(strip(cfgLines[i]))) =>
                     parseOutcome.result = <<>>

\* C6: the fingerprint of every entry parseFile returns is the hash of its
\* hostname option if that option is present and non-empty, and of its alias
\* otherwise.
C6_FingerprintIdentifier ==
    parsedText =>
        \A n \in 1..Len(parseOutcome.result) :
            LET e == parseOutcome.result[n]
                host_name == optionsGet(e.options, k_hostname, <<>>)
            IN  getHostHash(e) = md5hex12(IF host_name # <<>> THEN host_name ELSE e.host_alias)

(***************************************************************************)
(* Property of getDisplayLine, checked under SpecDisplay.                   *)
(***************************************************************************)
argValue(k) == optionsGet(entryArg.options, k, <<>>)
argHas(k) == argValue(k) # <<>>

\* C5: the label is alias, two spaces and, in parentheses, user@hostname if
\* both are present, else the hostname if present, followed by :port if a
\* port is present; the placeholder stands there exactly when neither a
\* hostname nor a port is present.
C5_DisplayLine ==
    displayLine # <<>> =>
        LET name == IF argHas(k_user) /\ argHas(k_hostname)
                    THEN argValue(k_user) \o <<"@">> \o argValue(k_hostname)
                    ELSE IF argHas(k_hostname) THEN argValue(k_hostname)
                    ELSE <<>>
            port == IF argHas(k_port) THEN <<":">> \o argValue(k_port) ELSE <<>>
            right == IF ~argHas(k_hostname) /\ ~argHas(k_port)
                     THEN s_placeholder
                     ELSE name \o port
        IN  displayLine = entryArg.host_alias \o <<" ", " ", "(">> \o right \o <<")">>

\* a user without hostname and port: the placeholder
C5_Witness ==
    /\ displayLine # <<>>
    /\ argHas(k_user)
    /\ ~argHas(k_hostname)
    /\ ~argHas(k_port)
    /\ displayLine = entryArg.host_alias \o <<" ", " ", "(">> \o s_placeholder \o <<")">>

(***************************************************************************)
(* Properties of the note store, checked under SpecNotes.                   *)
(***************************************************************************)
loadAfterSave ==
    /\ lastCall.op = "loadNotes"
    /\ lastCall.prev.op = "saveNotes"
    /\ lastCall.prev.write = "ok"

\* C7: a loadNotes that follows a successful saveNotes for the same entry
\* returns exactly the notes text of that save, whatever the file held
\* before.
C7_SaveThenLoad ==
    (loadAfterSave /\ lastCall.prev.entry = lastCall.entry) =>
        /\ ~lastCall.raised
        /\ lastCall.result = lastCall.prev.notes

C7_Witness ==
    /\ loadAfterSave
    /\ lastCall.prev.entry = lastCall.entry
    /\ lastCall.prev.notes = <<"\"", "\\">>
    /\ lastCall.result = <<"\"", "\\">>

\* the identifier of an entry: its hostname option, else its alias
identifierOf(e) == IF k_hostname \in DOMAIN e.options THEN e.options[k_hostname] ELSE e.host_alias

sameHostname(e1, e2) ==
    /\ k_hostname \in DOMAIN e1.options
    /\ k_hostname \in DOMAIN e2.options
    /\ e1.options[k_hostname] = e2.options[k_hostname]

\* C8: after a successful saveNotes through one entry, loadNotes through
\* every entry with another alias and the same hostname option returns the
\* saved text; a saveNotes through one entry leaves what loadNotes returns
\* for every entry with a different identifier as it was.
C8_SharedNoteFile ==
    [][lastCall'.op = "saveNotes" =>
          \A i \in 1..Len(entries) :
             LET e1 == lastCall'.entry
                 e2 == entries[i]
             IN  /\ (/\ lastCall'.write = "ok"
                     /\ e1.host_alias # e2.host_alias
                     /\ sameHostname(e1, e2)) =>
                        loadNotes(notesDir', e2).result = lastCall'.notes
                 /\ identifierOf(e1) # identifierOf(e2) =>
                        loadNotes(notesDir', e2) = loadNotes(notesDir, e2)]_vars

C8_Witness ==
    /\ loadAfterSave
    /\ lastCall.prev.entry.host_alias # lastCall.entry.host_alias
    /\ sameHostname(lastCall.prev.entry, lastCall.entry)
    /\ lastCall.prev.notes # <<>>
    /\ lastCall.result = lastCall.prev.notes

\* C10: loadNotes never raises and leaves every note file as it is; it
\* returns the empty string without a message when the entry's file is
\* absent, the empty string with a printed message when the file holds no
\* JSON object, and the notes text stored in the object otherwise.
C10_LoadNotesTotal ==
    [][lastCall'.op = "loadNotes" =>
          LET path == getNotesPath(lastCall'.entry)
          IN  /\ notesDir' = notesDir
              /\ ~lastCall'.raised
              /\ IF path \notin DOMAIN notesDir.files
                 THEN lastCall'.result = <<>> /\ ~lastCall'.printed
                 ELSE IF notesDir.files[path].type # "object"
                 THEN lastCall'.result = <<>> /\ lastCall'.printed
                 ELSE /\ ~lastCall'.printed
                      /\ IF "notes" \in DOMAIN notesDir.files[path].members
                         THEN \E t \in NoteTexts :
                                /\ notesDir.files[path].members["notes"] = jsonDumpsStr(t)
                                /\ lastCall'.result = t
                         ELSE lastCall'.result = <<>>]_vars

(***************************************************************************)
(* Property of the save button, checked under SpecGui.                      *)
(***************************************************************************)
\* C9: when writing the note file fails, saveNotes reports an error to its
\* caller and the status line does not say that the notes were saved.
C9_FailedSaveReported ==
    (lastCall.op = "saveCurrentNotes" /\ lastCall.write \in {"open_failed", "write_failed"}) =>
        /\ lastCall.raised
        /\ status.kind # "saved"

(***************************************************************************)
(* SshGui.logSession, connectNativeSsh and connectPutty.                    *)
(***************************************************************************)
MaxLog == 2          \* logSession calls of a run

s_NA == <<"N", "/", "A">>
s_22 == <<"2", "2">>

\* self.session_logs_dir_path / f"{host_alias}.log"
logFile(host_alias) == [dir |-> "session_logs", name |-> host_alias, suffix |-> ".log"]

\* open(log_file, "a") creates the file, not its directory: an alias with a
\* "/" names a file in a directory under session_logs that nothing creates
canAppend(host_alias) == ~contains(host_alias, <<"/">>)

\* log_entry; timestamp is datetime.now() of the call
logEntry(sel, connection_type, success, timestamp) ==
    [timestamp |-> timestamp,
     connection_type |-> connection_type,
     status |-> IF success THEN "Erfolg" ELSE "Fehler",      \* the two markers
     user_name |-> IF sel # <<>> THEN optionsGet(sel[1].options, k_user, s_NA) ELSE s_NA,
     host_name |-> IF sel # <<>> THEN optionsGet(sel[1].options, k_hostname, s_NA) ELSE s_NA,
     port |-> IF sel # <<>> THEN optionsGet(sel[1].options, k_port, s_22) ELSE s_22]

\* with open(log_file, "a") as f: f.write(log_entry)
appendLine(logs, file, line) ==
    [f \in (DOMAIN logs) \cup {file} |->
        IF f = file
        THEN (IF f \in DOMAIN logs THEN logs[f] ELSE <<>>) \o <<line>>
        ELSE logs[f]]

\* logSession(host_alias, connection_type, success): the log files
\* afterwards and whether the error was printed
logSession(logs, sel, host_alias, connection_type, success, timestamp) ==
    IF canAppend(host_alias)
    THEN [logs |-> appendLine(logs, logFile(host_alias),
                              logEntry(sel, connection_type, success, timestamp)),
          printed |-> FALSE]
    ELSE [logs |-> logs, printed |-> TRUE]

\* the call, for the history
logCall(sel, host_alias, connection_type, success, timestamp) ==
    [host_alias |-> host_alias, line |-> logEntry(sel, connection_type, success, timestamp)]

\* how starting the terminal or PuTTY can end: Popen returned, no terminal
\* program was found (connectNativeSsh on Linux), Popen raised
LaunchOutcomes == {"started", "no_terminal", "raised"}

\* connectNativeSsh (the SSH button and the double click)
connectNativeSsh ==
    IF selected_entry = <<>>
    THEN /\ lastCall' = [op |-> "connectNativeSsh", showinfo |-> TRUE, launch |-> "none"]
         /\ UNCHANGED <<configFile, entries, parseOutcome, entryArg, displayLine,
                        selected_entry, notes_text, notesDir, status, search_var, tree,
                        procVars>>
    ELSE \E launch \in LaunchOutcomes :
            LET host_alias == selected_entry[1].host_alias
                now == Len(logCalls) + 1
                r == logSession(sessionLogs, selected_entry, host_alias, "SSH",
                                launch = "started", now)
            IN  /\ lastCall' = [op |-> "connectNativeSsh", showinfo |-> FALSE,
                                launch |-> launch]
                /\ IF launch = "no_terminal"
                   THEN UNCHANGED <<sessionLogs, logCalls, status>>
                   ELSE /\ Len(logCalls) < MaxLog
                        /\ sessionLogs' = r.logs
                        /\ logCalls' = Append(logCalls,
                               logCall(selected_entry, host_alias, "SSH",
                                       launch = "started", now))
                        /\ status' = IF launch = "started"
                                     THEN setStatus([kind |-> "ssh_started",
                                                     alias |-> host_alias])
                                     ELSE status
                /\ UNCHANGED <<configFile, entries, parseOutcome, entryArg, displayLine,
                               selected_entry, notes_text, notesDir, search_var, tree,
                               keyFiles, putty_path, running, sigint>>

\* connectPutty (the PuTTY button)
connectPutty ==
    IF selected_entry = <<>> \/ putty_path = <<>>
    THEN /\ lastCall' = [op |-> "connectPutty", showinfo |-> selected_entry = <<>>,
                         launch |-> "none"]
         /\ UNCHANGED <<configFile, entries, parseOutcome, entryArg, displayLine,
                        selected_entry, notes_text, notesDir, status, search_var, tree,
                        procVars>>
    ELSE \E launch \in LaunchOutcomes \ {"no_terminal"} :
            LET entry == selected_entry[1]
                host_name == optionsGet(entry.options, k_hostname, entry.host_alias)
                user_name == optionsGet(entry.options, k_user, <<>>)
                target == IF user_name # <<>> THEN user_name \o <<"@">> \o host_name
                          ELSE host_name
                now == Len(logCalls) + 1
                r == logSession(sessionLogs, selected_entry, entry.host_alias, "PuTTY",
                                launch = "started", now)
            IN  /\ Len(logCalls) < MaxLog
                /\ lastCall' = [op |-> "connectPutty", showinfo |-> FALSE, launch |-> launch]
                /\ sessionLogs' = r.logs
                /\ logCalls' = Append(logCalls,
                       logCall(selected_entry, entry.host_alias, "PuTTY",
                               launch = "started", now))
                /\ status' = IF launch = "started"
                             THEN setStatus([kind |-> "putty_started", target |-> target])
                             ELSE status
                /\ UNCHANGED <<configFile, entries, parseOutcome, entryArg, displayLine,
                               selected_entry, notes_text, notesDir, search_var, tree,
                               keyFiles, putty_path, running, sigint>>

(***************************************************************************)
(* SshGui.generateKey with getKeyFilename, copyPubKeyIfExists,              *)
(* addKeyToConfig and showKeyInNotes.                                       *)
(***************************************************************************)
MaxKeys == 1         \* keys that generateKey adds to a config and to a notes text

\* str(self.ssh_dir_path) with the separator that follows it
s_ssh_dir == <<"~", "/", ".", "s", "s", "h", "/">>
s_pub == <<".", "p", "u", "b">>

KeyTypes == {<<"r", "s", "a">>}
KeyNames == {<<>>, <<"w">>}

\* getKeyFilename(key_type, key_name)
getKeyFilename(key_type, key_name) ==
    IF key_name # <<>>
    THEN <<"i", "d", "_">> \o key_type \o <<"_">> \o key_name
    ELSE <<"i", "d", "_">> \o key_type

\* how subprocess.check_call(["ssh-keygen", ...]) can end, and the public
\* key file it leaves
KeygenOutcomes == {"not_found", "failed", "ok"}
PubStates == {"missing", "empty", "key"}

\* the key files after ssh-keygen returned 0
keygenFiles(files, private_key_path, public_key_path, public) ==
    [f \in ((DOMAIN files) \cup {private_key_path}
              \cup (IF public = "missing" THEN {} ELSE {public_key_path}))
           \ (IF public = "missing" THEN {public_key_path} ELSE {}) |->
        IF f = private_key_path THEN "key"
        ELSE IF f = public_key_path THEN public
        ELSE files[f]]

\* copyPubKeyIfExists(public_key_path): whether the error box was shown;
\* otherwise the key is on the clipboard and the status line says so
copyPubKeyIfExists(files, public_key_path) ==
    IF public_key_path \notin DOMAIN files THEN [showerror |-> TRUE]
    ELSE IF files[public_key_path] = "empty" THEN [showerror |-> TRUE]
    ELSE [showerror |-> FALSE]

\* key_info of showKeyInNotes; the fixed texts are one element each
s_key_header == "--- SSH-Schluessel ---"
keyInfo(private_key_path, public_key_path) ==
    <<"\n", "\n", s_key_header, "\n", "Privat: ">> \o private_key_path
    \o <<"\n", "Oeffentlich: ">> \o public_key_path
    \o <<"\n", "\n", "Hinweis", "\n">>

\* showKeyInNotes(private_key_path, public_key_path): the notes widget
\* afterwards
showKeyInNotes(sel, text, private_key_path, public_key_path) ==
    LET current_notes == strip(text \o <<"\n">>)
        key_info == keyInfo(private_key_path, public_key_path)
    IN  IF sel = <<>> THEN text
        ELSE IF current_notes # <<>> THEN text \o key_info
        ELSE strip(key_info) \o text

\* the lines of the config that addKeyToConfig has written
insertedLines(file) ==
    LET lines == splitNewline(file.text)
    IN  Cardinality({j \in 1..Len(lines) :
                        startswith(lines[j], <<" ", " ">> \o s_IdentityFile)})

\* the key infos in the notes widget
shownKeys(text) == Cardinality({j \in 1..Len(text) : text[j] = s_key_header})

\* generateKey(key_type, key_name, update_config), called by
\* generateKeyDialog when the dialog was not cancelled
generateKey ==
    /\ \E key_type \in KeyTypes, key_name \in KeyNames, update_config \in BOOLEAN,
          overwrite \in BOOLEAN, keygen \in KeygenOutcomes, public \in PubStates,
          outcome \in WriteOutcomes :
           LET filename == getKeyFilename(key_type, key_name)
               private_key_path == s_ssh_dir \o filename
               public_key_path == s_ssh_dir \o filename \o s_pub
               exists == private_key_path \in DOMAIN keyFiles
                         \/ public_key_path \in DOMAIN keyFiles
               files == keygenFiles(keyFiles, private_key_path, public_key_path, public)
               copy == copyPubKeyIfExists(files, public_key_path)
               add == update_config /\ selected_entry # <<>>
               r == IF add
                    THEN addKeyToConfig(configFile, selected_entry[1], private_key_path,
                                        outcome)
                    ELSE [file |-> configFile, identity_added |-> FALSE, write |-> "none",
                          showerror |-> FALSE, reload |-> FALSE]
               es == parseFile(r.file).result
               sel == IF r.reload THEN <<>> ELSE selected_entry
               text == IF r.reload THEN <<>> ELSE notes_text
           IN  IF (exists /\ ~overwrite) \/ keygen # "ok"
               THEN /\ lastCall' = [op |-> "generateKey",
                                    keygen |-> IF exists /\ ~overwrite THEN "none" ELSE keygen,
                                    success |-> FALSE]
                    /\ UNCHANGED <<configFile, entries, tree, selected_entry, notes_text,
                                   status, keyFiles>>
               ELSE /\ r.identity_added => insertedLines(configFile) < MaxKeys
                    /\ sel # <<>> => shownKeys(text) < MaxKeys
                    /\ keyFiles' = files
                    /\ configFile' = r.file
                    /\ entries' = IF r.reload THEN es ELSE entries
                    /\ tree' = IF r.reload THEN treeRows(es, search_var) ELSE tree
                    /\ selected_entry' = sel
                    /\ notes_text' = showKeyInNotes(sel, text, private_key_path,
                                                    public_key_path)
                    /\ status' = IF r.reload THEN setStatus(getStatusText(es))
                                 ELSE IF ~copy.showerror
                                 THEN setStatus([kind |-> "copied", name |-> filename \o s_pub])
                                 ELSE status
                    /\ lastCall' = [op |-> "generateKey", keygen |-> keygen, success |-> TRUE,
                                    public |-> public, pub_error |-> copy.showerror,
                                    update_config |-> update_config,
                                    identity_added |-> r.identity_added, write |-> r.write,
                                    config_error |-> r.showerror,
                                    private_key_path |-> private_key_path,
                                    public_key_path |-> public_key_path]
    /\ UNCHANGED <<parseOutcome, entryArg, displayLine, notesDir, search_var,
                   sessionLogs, logCalls, putty_path, running, sigint>>

(***************************************************************************)
(* SpecLog: the window with the handlers that select a host and connect.    *)
(***************************************************************************)
\* Host a / Port 2 / User x / Host a/b / Host c
G_log ==
    joinLines(<<L_host_a, <<"P", "o", "r", "t", " ", "2">>, L_User_x,
                <<"H", "o", "s", "t", " ", "a", "/", "b">>,
                <<"H", "o", "s", "t", " ", "c">>>>)

\* a log file of an earlier run
OldLogs ==
    appendLine(NoLogs, logFile(<<"a">>), logEntry(<<>>, "SSH", TRUE, 0))

InitLog ==
    /\ configFile = TextFile(G_log)
    /\ entries = parseFile(configFile).result
    /\ parseOutcome = NotParsed
    /\ entryArg = NoEntryArg
    /\ displayLine = <<>>
    /\ selected_entry = <<>>
    /\ notes_text = <<>>
    /\ notesDir = [access |-> TRUE, files |-> <<>>]
    /\ status = setStatus(getStatusText(entries))
    /\ search_var = <<>>
    /\ tree = treeRows(entries, <<>>)
    /\ lastCall = NoCall
    /\ sessionLogs \in {NoLogs, OldLogs}
    /\ logCalls = <<>>
    /\ keyFiles = NoKeys
    /\ putty_path \in {<<>>, <<"putty">>}
    /\ running = Mainloop
    /\ sigint = FALSE

NextLog ==
    \/ loadEntries
    \/ onSelectEntry
    \/ connectNativeSsh
    \/ connectPutty

SpecLog == InitLog /\ [][NextLog]_vars

(***************************************************************************)
(* SpecKeys: the window with the handlers that select a host, edit its      *)
(* notes and generate a key.                                                *)
(***************************************************************************)
\* Host b / Host a / User x
G_keys == joinLines(<<<<"H", "o", "s", "t", " ", "b">>, L_host_a, L_User_x>>)

InitKeys ==
    /\ configFile = TextFile(G_keys)
    /\ entries = parseFile(configFile).result
    /\ parseOutcome = NotParsed
    /\ entryArg = NoEntryArg
    /\ displayLine = <<>>
    /\ selected_entry = <<>>
    /\ notes_text = <<>>
    /\ notesDir = [access |-> TRUE, files |-> <<>>]
    /\ status = setStatus(getStatusText(entries))
    /\ search_var = <<>>
    /\ tree = treeRows(entries, <<>>)
    /\ lastCall = NoCall
    /\ sessionLogs = NoLogs
    /\ logCalls = <<>>
    /\ keyFiles = NoKeys
    /\ putty_path = <<>>
    /\ running = Mainloop
    /\ sigint = FALSE

NextKeys ==
    \/ onSelectEntry
    \/ typeNotes
    \/ generateKey

SpecKeys == InitKeys /\ [][NextKeys]_vars

(***************************************************************************)
(* SpecApp: the window with the handlers that set, reset and use the        *)
(* selection, and the config file changing under it.                        *)
(***************************************************************************)
\* Host a / User x
G_one == joinLines(<<L_host_a, L_User_x>>)

\* the config files that the user's editor leaves at config_path
EditedConfigFiles == {TextFile(G_keys), TextFile(G_one), MissingFile}

\* the user changes the config file outside the window; the window reads it
\* at the next loadEntries
editConfig ==
    \E file \in EditedConfigFiles \ {configFile} :
        /\ configFile' = file
        /\ lastCall' = [op |-> "editConfig"]
        /\ UNCHANGED <<procVars, entries, parseOutcome, entryArg, displayLine,
                       selected_entry, notes_text, notesDir, status, search_var, tree>>

\* the window after construction on a machine without PuTTY
InitApp ==
    /\ configFile = TextFile(G_keys)
    /\ entries = parseFile(configFile).result
    /\ parseOutcome = NotParsed
    /\ entryArg = NoEntryArg
    /\ displayLine = <<>>
    /\ selected_entry = <<>>
    /\ notes_text = <<>>
    /\ notesDir = [access |-> TRUE, files |-> <<>>]
    /\ status = setStatus(getStatusText(entries))
    /\ search_var = <<>>
    /\ tree = treeRows(entries, <<>>)
    /\ lastCall = NoCall
    /\ sessionLogs = NoLogs
    /\ logCalls = <<>>
    /\ keyFiles = NoKeys
    /\ putty_path = <<>>
    /\ running = Mainloop
    /\ sigint = FALSE

NextApp ==
    \/ editConfig
    \/ loadEntries
    \/ filterEntries
    \/ onSelectEntry
    \/ saveCurrentNotes
    \/ connectNativeSsh
    \/ connectPutty

SpecApp == InitApp /\ [][NextApp]_vars

(***************************************************************************)
(* SpecSigint: saveCurrentNotes and addKeyToConfig step by step, and a      *)
(* SIGINT arriving at any moment.  installSigintHandler is defined but      *)
(* never called, so the handler of SIGINT is Python's default one: the      *)
(* signal is noted, and KeyboardInterrupt is raised in the main thread      *)
(* before its next instruction.  No except Exception clause catches it; in  *)
(* a Tk callback it ends the callback, in app.mainloop() it ends the        *)
(* program.                                                                 *)
(***************************************************************************)
Exited == [op |-> "exited"]

\* the save button: saveCurrentNotes up to the call of write_text
beginSaveNotes ==
    /\ running = Mainloop
    /\ selected_entry # <<>>
    /\ running' = [op |-> "saveCurrentNotes", pc |-> "open",
                   entry |-> selected_entry[1],
                   notes |-> strip(notes_text \o <<"\n">>)]
    /\ UNCHANGED <<configFile, entries, parseOutcome, entryArg, displayLine, selected_entry,
                   notes_text, notesDir, status, search_var, tree, lastCall,
                   sessionLogs, logCalls, keyFiles, putty_path, sigint>>

\* saveNotes: write_text opens the file for writing, which empties it,
\* writes the data and closes it; then setStatus
stepSaveNotes ==
    /\ running.op = "saveCurrentNotes"
    /\ LET notes_file == getNotesPath(running.entry)
       IN  CASE running.pc = "open" ->
                  /\ notesDir' = writeFile(notesDir, notes_file, InvalidJson)
                  /\ running' = [running EXCEPT !.pc = "write"]
                  /\ UNCHANGED <<status, lastCall>>
             [] running.pc = "write" ->
                  /\ notesDir' = writeFile(notesDir, notes_file,
                                           JsonObject(notesData(running.entry, running.notes)))
                  /\ running' = [running EXCEPT !.pc = "setStatus"]
                  /\ UNCHANGED <<status, lastCall>>
             [] running.pc = "setStatus" ->
                  /\ status' = setStatus([kind |-> "saved", alias |-> running.entry.host_alias])
                  /\ lastCall' = [op |-> "saveCurrentNotes", showinfo |-> FALSE,
                                  write |-> "ok", showerror |-> FALSE, raised |-> FALSE]
                  /\ running' = Mainloop
                  /\ UNCHANGED notesDir
    /\ UNCHANGED <<configFile, entries, parseOutcome, entryArg, displayLine, selected_entry,
                   notes_text, search_var, tree, sessionLogs, logCalls, keyFiles,
                   putty_path, sigint>>

\* generateKey with update_config and a selected host, after ssh-keygen and
\* copyPubKeyIfExists: up to the call of addKeyToConfig
beginAddKeyToConfig ==
    /\ running = Mainloop
    /\ selected_entry # <<>>
    /\ insertedLines(configFile) < MaxKeys
    /\ \E key_path \in KeyPaths :
          running' = [op |-> "addKeyToConfig", pc |-> "read",
                      entry |-> selected_entry[1], key_path |-> key_path]
    /\ UNCHANGED <<configFile, entries, parseOutcome, entryArg, displayLine, selected_entry,
                   notes_text, notesDir, status, search_var, tree, lastCall,
                   sessionLogs, logCalls, keyFiles, putty_path, sigint>>

\* addKeyToConfig: read_text and the loop; write_text opens the file, which
\* empties it, and writes the new text; setStatus and loadEntries
stepAddKeyToConfig ==
    /\ running.op = "addKeyToConfig"
    /\ CASE running.pc = "read" ->
              LET r == addKeyToConfig(configFile, running.entry, running.key_path, "ok")
              IN  /\ IF r.identity_added
                     THEN /\ running' = [op |-> "addKeyToConfig", pc |-> "open",
                                         entry |-> running.entry,
                                         key_path |-> running.key_path,
                                         new_text |-> r.file.text]
                          /\ UNCHANGED lastCall
                     ELSE /\ running' = Mainloop
                          /\ lastCall' = [op |-> "addKeyToConfig", identity_added |-> FALSE]
                  /\ UNCHANGED <<configFile, entries, tree, selected_entry, notes_text, status>>
         [] running.pc = "open" ->
              /\ configFile' = TextFile(<<>>)
              /\ running' = [running EXCEPT !.pc = "write"]
              /\ UNCHANGED <<entries, tree, selected_entry, notes_text, status, lastCall>>
         [] running.pc = "write" ->
              /\ configFile' = TextFile(running.new_text)
              /\ running' = [running EXCEPT !.pc = "loadEntries"]
              /\ UNCHANGED <<entries, tree, selected_entry, notes_text, status, lastCall>>
         [] running.pc = "loadEntries" ->
              LET es == parseFile(configFile).result
              IN  /\ entries' = es
                  /\ tree' = treeRows(es, search_var)
                  /\ selected_entry' = <<>>
                  /\ notes_text' = <<>>
                  /\ status' = setStatus(getStatusText(es))
                  /\ lastCall' = [op |-> "addKeyToConfig", identity_added |-> TRUE]
                  /\ running' = Mainloop
                  /\ UNCHANGED configFile
    /\ UNCHANGED <<parseOutcome, entryArg, displayLine, notesDir, search_var,
                   sessionLogs, logCalls, keyFiles, putty_path, sigint>>

\* a SIGINT arrives (Ctrl+C in the terminal, kill -INT)
receiveSigint ==
    /\ running # Exited
    /\ ~sigint
    /\ sigint' = TRUE
    /\ UNCHANGED <<configFile, entries, parseOutcome, entryArg, displayLine, selected_entry,
                   notes_text, notesDir, status, search_var, tree, lastCall,
                   sessionLogs, logCalls, keyFiles, putty_path, running>>

\* the main thread raises KeyboardInterrupt: a running callback ends where
\* it is and Tk reports the exception; app.mainloop() ends and with it the
\* program (lines 898-900)
raiseKeyboardInterrupt ==
    /\ sigint
    /\ sigint' = FALSE
    /\ running' = IF running = Mainloop THEN Exited ELSE Mainloop
    /\ lastCall' = [op |-> "KeyboardInterrupt", during |-> running]
    /\ UNCHANGED <<configFile, entries, parseOutcome, entryArg, displayLine, selected_entry,
                   notes_text, notesDir, status, search_var, tree,
                   sessionLogs, logCalls, keyFiles, putty_path>>

InitSigint == InitKeys

NextSigint ==
    \/ (running = Mainloop /\ onSelectEntry)
    \/ (running = Mainloop /\ typeNotes)
    \/ beginSaveNotes
    \/ stepSaveNotes
    \/ beginAddKeyToConfig
    \/ stepAddKeyToConfig
    \/ receiveSigint
    \/ raiseKeyboardInterrupt

SpecSigint == InitSigint /\ [][NextSigint]_vars

(***************************************************************************)
(* The config text as section 4.3 of the specification reads it, for        *)
(* stating the properties of the rewrite: Host lines, the directive lines   *)
(* (non-blank, no comment, no Host line) and the block of a line.           *)
(***************************************************************************)
mFields(lines, j) == split(lines[j])

mSkipped(lines, j) == strip(lines[j]) = <<>> \/ Head(strip(lines[j])) = "#"

mHostDecl(lines, j) ==
    /\ ~mSkipped(lines, j)
    /\ Len(mFields(lines, j)) >= 2
    /\ lower(mFields(lines, j)[1]) = <<"h", "o", "s", "t">>

mDirective(lines, j) == ~mSkipped(lines, j) /\ ~mHostDecl(lines, j)

\* the Host line whose block holds line j (0: before the first Host line)
mBlockOf(lines, j) ==
    LET decls == {i \in 1..j : mHostDecl(lines, i)}
    IN  IF decls = {} THEN 0 ELSE CHOOSE i \in decls : \A k \in decls : k <= i

\* the first directive line of the block of Host line i (0: none)
mFirstDirective(lines, i) ==
    LET ds == {j \in 1..Len(lines) : mDirective(lines, j) /\ mBlockOf(lines, j) = i}
    IN  IF ds = {} THEN 0 ELSE CHOOSE j \in ds : \A k \in ds : j <= k

\* the Host lines that declare alias as their first pattern
aliasBlocks(lines, alias) ==
    {i \in 1..Len(lines) : mHostDecl(lines, i) /\ mFields(lines, i)[2] = alias}

insertAfter(lines, j, line) ==
    SubSeq(lines, 1, j) \o <<line>> \o SubSeq(lines, j + 1, Len(lines))

mutated == lastCall.op = "addKeyToConfig"
beforeLines == splitNewline(lastCall.before)
afterLines == splitNewline(configFile.text)
newLine == identityLine(lastCall.key_path)

(***************************************************************************)
(* Properties of addKeyToConfig, checked under SpecMutate.                  *)
(***************************************************************************)
\* C11: when a block of the entry's alias has a directive line, the file
\* afterwards is the file before with the one line '  IdentityFile <path>'
\* inserted right after the first directive line of a block of that alias;
\* every other line is where it was.
C11_InsertAfterFirstDirective ==
    (/\ mutated
     /\ lastCall.write \in {"ok", "none"}
     /\ \E i \in aliasBlocks(beforeLines, lastCall.entry.host_alias) :
           mFirstDirective(beforeLines, i) # 0) =>
        \E i \in aliasBlocks(beforeLines, lastCall.entry.host_alias) :
            /\ mFirstDirective(beforeLines, i) # 0
            /\ afterLines = insertAfter(beforeLines, mFirstDirective(beforeLines, i), newLine)

\* C12: when no block of the entry's alias has a directive line, nothing is
\* inserted, the flag is false, the file is not written and keeps its
\* content, and the entries are not reloaded.
C12_NoDirectiveNoWrite ==
    (/\ mutated
     /\ \A i \in aliasBlocks(beforeLines, lastCall.entry.host_alias) :
           mFirstDirective(beforeLines, i) = 0) =>
        /\ ~lastCall.identity_added
        /\ lastCall.write = "none"
        /\ configFile.text = lastCall.before
        /\ ~lastCall.reload

\* the directive lines whose nearest preceding Host line contains the alias
substringTargets ==
    {j \in 1..Len(beforeLines) :
        /\ mDirective(beforeLines, j)
        /\ mBlockOf(beforeLines, j) # 0
        /\ contains(beforeLines[mBlockOf(beforeLines, j)], lastCall.entry.host_alias)}

\* C13: the line is inserted once, after the first line that is non-blank,
\* no comment, no Host line and whose nearest preceding Host line contains
\* the alias as a substring; without such a line nothing is inserted.
C13_SubstringTarget ==
    (mutated /\ lastCall.write \in {"ok", "none"}) =>
        IF substringTargets = {}
        THEN ~lastCall.identity_added /\ afterLines = beforeLines
        ELSE LET j == CHOOSE t \in substringTargets : \A u \in substringTargets : t <= u
             IN  /\ lastCall.identity_added
                 /\ afterLines = insertAfter(beforeLines, j, newLine)

\* C18: after an insertion, the re-parsed config has an entry of the alias
\* whose identityfile option is the inserted key path.
C18_ReparsedIdentity ==
    (mutated /\ lastCall.identity_added /\ lastCall.write = "ok") =>
        \E n \in 1..Len(entries) :
            /\ entries[n].host_alias = lastCall.entry.host_alias
            /\ k_identityfile \in DOMAIN entries[n].options
            /\ entries[n].options[k_identityfile] = lastCall.key_path

\* C20: after an insertion, parseFile gives the aliases it gave before, in
\* the same order, with every option other than identityfile as before, and
\* so every hash and note path as before.
C20_RewriteKeepsHosts ==
    (mutated /\ lastCall.identity_added /\ lastCall.write = "ok") =>
        LET old == parseFile(TextFile(lastCall.before)).result
        IN  /\ Len(entries) = Len(old)
            /\ \A n \in 1..Len(entries) :
                  /\ n <= Len(old)
                  /\ entries[n].host_alias = old[n].host_alias
                  /\ \A k \in (DOMAIN entries[n].options \cup DOMAIN old[n].options)
                                \ {k_identityfile} :
                        /\ k \in DOMAIN entries[n].options
                        /\ k \in DOMAIN old[n].options
                        /\ entries[n].options[k] = old[n].options[k]
                  /\ getHostHash(entries[n]) = getHostHash(old[n])
                  /\ getNotesPath(entries[n]) = getNotesPath(old[n])

\* two hosts, the line inserted for the second one, which has a user
C20_Witness ==
    /\ mutated
    /\ lastCall.identity_added
    /\ lastCall.write = "ok"
    /\ Len(entries) = 2
    /\ lastCall.entry.host_alias = entries[2].host_alias
    /\ k_user \in DOMAIN entries[2].options
    /\ k_identityfile \in DOMAIN entries[2].options

(***************************************************************************)
(* The session logs against the history of logSession calls.                *)
(***************************************************************************)
\* the lines of the log file of an alias
logLines(logs, host_alias) ==
    IF logFile(host_alias) \in DOMAIN logs THEN logs[logFile(host_alias)] ELSE <<>>

\* the lines that the logSession calls of this run made for an alias
calledLines(calls, host_alias) ==
    LET forAlias(c) == c.host_alias = host_alias
        mine == SelectSeq(calls, forAlias)
    IN  [j \in 1..Len(mine) |-> mine[j].line]

\* the lines an earlier run left (they carry timestamp 0)
earlierLines(logs, host_alias) ==
    LET old(line) == line.timestamp = 0
    IN  SelectSeq(logLines(logs, host_alias), old)

loggedAliases == {logCalls[j].host_alias : j \in 1..Len(logCalls)}

\* the fixed form of a line: method, status marker, and port 22 for a host
\* without a port
logLineForm(line, host_alias) ==
    /\ line.connection_type \in {"SSH", "PuTTY"}
    /\ line.status \in {"Erfolg", "Fehler"}
    /\ \A n \in 1..Len(entries) :
          (entries[n].host_alias = host_alias /\ k_port \notin DOMAIN entries[n].options)
              => line.port = s_22

\* C14: the log file of every alias holds the lines of earlier runs followed
\* by exactly one line per logSession call made for that alias, in call
\* order and of the fixed form; and no step removes or changes a line that
\* a log file already holds, nor touches the file of an alias it did not log.
C14_LogAdditive ==
    /\ [](\A host_alias \in loggedAliases :
             /\ logLines(sessionLogs, host_alias)
                    = earlierLines(sessionLogs, host_alias)
                      \o calledLines(logCalls, host_alias)
             /\ \A j \in 1..Len(logLines(sessionLogs, host_alias)) :
                   logLineForm(logLines(sessionLogs, host_alias)[j], host_alias))
    /\ [][\A f \in DOMAIN sessionLogs :
             /\ f \in DOMAIN sessionLogs'
             /\ Len(sessionLogs'[f]) >= Len(sessionLogs[f])
             /\ SubSeq(sessionLogs'[f], 1, Len(sessionLogs[f])) = sessionLogs[f]
             /\ (Len(logCalls') > Len(logCalls)
                   /\ f # logFile(logCalls'[Len(logCalls')].host_alias))
                  => sessionLogs'[f] = sessionLogs[f]]_vars

(***************************************************************************)
(* generateKey after ssh-keygen returned 0.                                 *)
(***************************************************************************)
\* the step is a generateKey call in which ssh-keygen returned 0
keygenReturned(call) == call.op = "generateKey" /\ call.keygen = "ok"

\* C15: when ssh-keygen returned 0 and the public key file is missing or
\* empty, generateKey shows the error, writes no IdentityFile to the config,
\* leaves the notes widget as it was and shows no success message.
C15_AbortWithoutPublicKey ==
    [][(keygenReturned(lastCall') /\ lastCall'.public \in {"missing", "empty"})
          => /\ lastCall'.pub_error
             /\ configFile' = configFile
             /\ notes_text' = notes_text
             /\ ~lastCall'.success]_vars

\* C17: when generateKey succeeded with a public key and a host was
\* selected, that host is still selected and its notes widget shows the
\* private and the public key path, with and without update_config.
C17_KeyShownInNotes ==
    [][(keygenReturned(lastCall') /\ lastCall'.public = "key" /\ lastCall'.success
          /\ selected_entry # <<>>)
          => /\ selected_entry' = selected_entry
             /\ contains(notes_text', <<"Privat: ">> \o lastCall'.private_key_path)
             /\ contains(notes_text', <<"Oeffentlich: ">> \o lastCall'.public_key_path)]_vars

(***************************************************************************)
(* The selection of the window.                                             *)
(***************************************************************************)
\* C19: selected_entry is None or an element of entries; a loadEntries or
\* filterEntries step leaves it None; an onSelectEntry step on a row sets
\* it to the entry at the row's iid, whose display line is the one the row
\* shows; saveCurrentNotes, connectNativeSsh and connectPutty write no
\* file when it is None.
C19_SelectionInEntries ==
    /\ [](selected_entry = <<>>
            \/ \E n \in 1..Len(entries) : entries[n] = selected_entry[1])
    /\ [][/\ lastCall'.op \in {"loadEntries", "filterEntries"}
                => selected_entry' = <<>>
          /\ lastCall'.op = "onSelectEntry"
                => /\ lastCall'.row \in 1..Len(tree)
                   /\ selected_entry' = <<entries[tree[lastCall'.row].iid + 1]>>
                   /\ tree[lastCall'.row].values = getDisplayLine(selected_entry'[1])
          /\ (selected_entry = <<>>
                /\ lastCall'.op \in {"saveCurrentNotes", "connectNativeSsh", "connectPutty"})
                => /\ UNCHANGED <<notesDir, sessionLogs, configFile, keyFiles>>
                   /\ selected_entry' = <<>>]_vars

\* the search filter hides the first host and the row of the second one has
\* been selected
C19_Witness ==
    /\ lastCall.op = "onSelectEntry"
    /\ search_var # <<>>
    /\ Len(entries) = 2
    /\ Len(tree) = 1
    /\ tree[1].iid = 1
    /\ selected_entry = <<entries[2]>>

(***************************************************************************)
(* SIGINT and the operations in progress.                                   *)
(***************************************************************************)
UserWrites == {"saveCurrentNotes", "addKeyToConfig"}

\* C16: a note save or config rewrite that has started ends only by
\* completing, at whatever moment a SIGINT arrives: no SIGINT ends it
\* part-way through its file write.
C16_SigintKeepsWrites ==
    [][(running.op \in UserWrites /\ running'.op \notin UserWrites)
          => lastCall'.op = running.op]_vars

====
